---- MODULE Spec2Model ----
(***************************************************************************)
(* OvmfPkg/AmdSevDxe/AmdSevDxe.c: the AMD SEV DXE driver entry point.      *)
(*                                                                         *)
(* AmdSevDxeEntryPoint is one sequential routine.  The model follows its   *)
(* control flow statement by statement (pc), keeps its local variables,    *)
(* and records every call it makes to a library or a boot/DXE service in   *)
(* the sequence `calls` (operation, arguments, result, source line of the  *)
(* call site).  The services themselves are outside the file: each result  *)
(* they hand back is drawn from the set of results the service documents.  *)
(***************************************************************************)
EXTENDS Integers, Sequences, FiniteSets, TLC

VARIABLES
  AssertEnabled,              \* build: ASSERT() compiled in and halting (DEBUG) or a no-op (RELEASE)
  PcdSmmSmramRequire,         \* build: FeaturePcdGet (PcdSmmSmramRequire)
  PcdOvmfHostBridgePciDevId,  \* platform: PcdGet16 (PcdOvmfHostBridgePciDevId)
  PcdPciExpressBaseAddress,   \* build: FixedPcdGet64 (PcdPciExpressBaseAddress)
  pc,                         \* position in AmdSevDxeEntryPoint
  Status,                     \* EFI_STATUS Status
  AllDescMap,                 \* EFI_GCD_MEMORY_SPACE_DESCRIPTOR *AllDescMap (the buffer's content)
  NumEntries,                 \* UINTN NumEntries
  Index,                      \* UINTN Index
  MapPagesBase,               \* UINTN MapPagesBase
  MapPagesCount,              \* UINTN MapPagesCount
  SnpBootDxeTable,            \* CONFIDENTIAL_COMPUTING_SNP_BLOB_LOCATION *SnpBootDxeTable
  CcBlob,                     \* CcBlob of AllocateConfidentialComputingBlob
  pool,                       \* EfiACPIReclaimMemory pool: address of an allocation -> its content
  calls,                      \* the calls made so far, in order
  ReturnStatus                \* the value AmdSevDxeEntryPoint returned

vars == << AssertEnabled, PcdSmmSmramRequire, PcdOvmfHostBridgePciDevId,
           PcdPciExpressBaseAddress, pc, Status, AllDescMap, NumEntries, Index,
           MapPagesBase, MapPagesCount, SnpBootDxeTable, CcBlob, pool, calls,
           ReturnStatus >>

build == << AssertEnabled, PcdSmmSmramRequire, PcdOvmfHostBridgePciDevId,
            PcdPciExpressBaseAddress >>

-----------------------------------------------------------------------------
(* Bounds of the model *)

\* longest descriptor map GetMemorySpaceMap hands back
MaxEntries == 2

-----------------------------------------------------------------------------
(* Program constants *)

EFI_PAGE_SIZE == 4096

SIZE_256MB == 268435456

INTEL_Q35_MCH_DEVICE_ID == 10688

\* sizeof (CONFIDENTIAL_COMPUTING_SNP_BLOB_LOCATION)
CcBlobSize == 44

\* SIGNATURE_32 ('A', 'M', 'D', 'E'): 'A' | 'M' << 8 | 'D' << 16 | 'E' << 24
SIGNATURE_32(A, B, C, D) == A + B * 256 + C * 65536 + D * 16777216

\* a local variable that has not been assigned yet
Indeterminate == "Indeterminate"

\* status codes; EFI_ERROR is true of the codes with the high bit set
ErrorCodes == { "EFI_INVALID_PARAMETER", "EFI_UNSUPPORTED", "EFI_OUT_OF_RESOURCES",
                "EFI_NOT_FOUND" }

EFI_ERROR(s) == s \in ErrorCodes

\* EFI_SIZE_TO_PAGES that drops the partial last page
SizeToPagesRoundingDown(Size) == Size \div EFI_PAGE_SIZE

\* EFI_SIZE_TO_PAGES (Size) = (Size >> 12) + ((Size & 0xFFF) ? 1 : 0)
EFI_SIZE_TO_PAGES(Size) ==
  (Size \div EFI_PAGE_SIZE) + (IF Size % EFI_PAGE_SIZE # 0 THEN 1 ELSE 0)

\* EFI_PAGES_TO_SIZE (Pages) = Pages << 12
EFI_PAGES_TO_SIZE(Pages) == Pages * EFI_PAGE_SIZE

-----------------------------------------------------------------------------
(* What the services can hand back *)

GcdMemoryTypes == { "EfiGcdMemoryTypeMemoryMappedIo", "EfiGcdMemoryTypeNonExistent",
                    "EfiGcdMemoryTypeSystemMemory", "EfiGcdMemoryTypeReserved" }

\* host bridges OVMF runs on: Q35 MCH and i440FX (0x1237)
HostBridgePciDevIds == { INTEL_Q35_MCH_DEVICE_ID, 4663 }

\* the MMCONFIG base of the build
PciExpressBaseAddresses == { 1073741824 }

\* address ranges <<BaseAddress, Length>> a GCD descriptor may describe; the
\* last is the MMCONFIG window PlatformPei reserves on Q35
DescRanges == { <<0, 4096>>, <<8192, 4097>>, <<1073741824, SIZE_256MB>> }

\* system memory stays below the MMCONFIG window: the window is Reserved
\* (PlatformPei on Q35), or MMIO or NonExistent space
Descriptors ==
  { d \in { [GcdMemoryType |-> t, BaseAddress |-> r[1], Length |-> r[2]] :
              t \in GcdMemoryTypes, r \in DescRanges } :
      d.GcdMemoryType = "EfiGcdMemoryTypeSystemMemory" => d.BaseAddress + d.Length <= 1073741824 }

\* the GCD map never holds two descriptors of overlapping ranges
Disjoint(d, e) ==
  \/ d.BaseAddress + d.Length <= e.BaseAddress
  \/ e.BaseAddress + e.Length <= d.BaseAddress

SeqsUpTo(S, n) == UNION { [1..k -> S] : k \in 0..n }

MemorySpaceMaps ==
  { m \in SeqsUpTo(Descriptors, MaxEntries) :
      \A i, j \in 1..Len(m) : i # j => Disjoint(m[i], m[j]) }

GetMemorySpaceMapStatuses == { "EFI_SUCCESS", "EFI_OUT_OF_RESOURCES" }

ClearEncMaskStatuses == { "EFI_SUCCESS", "EFI_INVALID_PARAMETER" }

LocateStatuses == { "EFI_SUCCESS", "EFI_UNSUPPORTED" }

\* <<MapPagesBase, MapPagesCount>> of the initial SMRAM save state map
SaveStateMapPages == { <<258048, 1>>, <<253952, 2>> }

\* what an unassigned UINTN on the stack may hold
IndeterminateUINTN == { 0, 258048 }

AllocatePoolStatuses == { "EFI_SUCCESS", "EFI_OUT_OF_RESOURCES" }

PoolAddresses == { 8388608, 8388672 }

\* what a fresh pool allocation may hold in each 32-bit word
PoolGarbage == { 175 }

InstallConfigurationTableStatuses ==
  { "EFI_SUCCESS", "EFI_OUT_OF_RESOURCES", "EFI_INVALID_PARAMETER", "EFI_NOT_FOUND" }

\* the Pcd values the blob is filled from
PcdOvmfSnpSecretsBase == 8441856
PcdOvmfSnpSecretsSize == 4096
PcdOvmfCpuidBase == 8445952
PcdOvmfCpuidSize == 4096

\* one call: the operation, its IN arguments, what it stored through its OUT
\* arguments, the value it returned and the source line of the call
Call(op, args, out, ret, line) ==
  [op |-> op, args |-> args, out |-> out, ret |-> ret, line |-> line]

Void == "void"

-----------------------------------------------------------------------------
Init ==
  /\ AssertEnabled \in BOOLEAN
  /\ PcdSmmSmramRequire \in BOOLEAN
  /\ PcdOvmfHostBridgePciDevId \in HostBridgePciDevIds
  /\ PcdPciExpressBaseAddress \in PciExpressBaseAddresses
  /\ pc = << "Gate", 73 >>
  /\ Status = Indeterminate
  /\ AllDescMap = Indeterminate
  /\ NumEntries = Indeterminate
  /\ Index = Indeterminate
  /\ MapPagesBase = Indeterminate
  /\ MapPagesCount = Indeterminate
  /\ SnpBootDxeTable = Indeterminate
  /\ CcBlob = Indeterminate
  /\ pool = [a \in { } |-> Indeterminate]
  /\ calls = << >>
  /\ ReturnStatus = Indeterminate

\* an assertion that halts in every build
AfterAssertInEveryBuild(failed, line, goon) ==
  IF failed THEN << "Assert", line >> ELSE goon

\* ASSERT (...) at `line`: with assertions compiled in, a failed assertion ends
\* in DebugAssert's dead loop; compiled out, execution goes on at `goon`
AfterAssert(failed, line, goon) ==
  IF failed /\ AssertEnabled THEN << "Assert", line >> ELSE goon

\* the gate with its test inverted: if (MemEncryptSevIsEnabled ()) return ...
GateInverted ==
  /\ pc = << "Gate", 73 >>
  /\ \E enabled \in BOOLEAN :
       /\ calls' = Append(calls, Call("MemEncryptSevIsEnabled", << >>, << >>, enabled, 73))
       /\ IF enabled
            THEN /\ pc' = << "Returned", 74 >>
                 /\ ReturnStatus' = "EFI_UNSUPPORTED"
            ELSE /\ pc' = << "GetMemorySpaceMap", 84 >>
                 /\ UNCHANGED ReturnStatus
  /\ UNCHANGED << build, Status, AllDescMap, NumEntries, Index, MapPagesBase,
                  MapPagesCount, SnpBootDxeTable, CcBlob, pool >>

\* lines 73-75: if (!MemEncryptSevIsEnabled ()) return EFI_UNSUPPORTED;
Gate ==
  /\ pc = << "Gate", 73 >>
  /\ \E enabled \in BOOLEAN :
       /\ calls' = Append(calls, Call("MemEncryptSevIsEnabled", << >>, << >>, enabled, 73))
       /\ IF ~enabled
            THEN /\ pc' = << "Returned", 74 >>
                 /\ ReturnStatus' = "EFI_UNSUPPORTED"
            ELSE /\ pc' = << "GetMemorySpaceMap", 84 >>
                 /\ UNCHANGED ReturnStatus
  /\ UNCHANGED << build, Status, AllDescMap, NumEntries, Index, MapPagesBase,
                  MapPagesCount, SnpBootDxeTable, CcBlob, pool >>

\* lines 105-108: "If PCI Express is enabled, the MMCONFIG area has been
\* reserved, rather than marked as MMIO": on the Q35 host bridge a descriptor
\* that lies in the MMCONFIG window is a Reserved one
PlatformMaps ==
  { m \in MemorySpaceMaps :
      PcdOvmfHostBridgePciDevId = INTEL_Q35_MCH_DEVICE_ID =>
        \A k \in 1..Len(m) :
          \/ m[k].GcdMemoryType = "EfiGcdMemoryTypeReserved"
          \/ m[k].BaseAddress + m[k].Length <= PcdPciExpressBaseAddress
          \/ PcdPciExpressBaseAddress + SIZE_256MB <= m[k].BaseAddress }

\* the retrieval whose error is returned to the caller: if (EFI_ERROR (Status))
\* return Status;
GetMemorySpaceMapReturningError ==
  /\ pc = << "GetMemorySpaceMap", 84 >>
  /\ \E st \in GetMemorySpaceMapStatuses :
       /\ Status' = st
       /\ IF ~EFI_ERROR(st)
            THEN \E m \in PlatformMaps :
                   /\ calls' = Append(calls, Call("GetMemorySpaceMap", << >>,
                                                  << Len(m), m >>, st, 84))
                   /\ AllDescMap' = m
                   /\ NumEntries' = Len(m)
                   /\ Index' = 0
                   /\ pc' = << "Sweep", 86 >>
                   /\ UNCHANGED ReturnStatus
            ELSE /\ UNCHANGED << AllDescMap, NumEntries, Index >>
                 /\ calls' = Append(calls, Call("GetMemorySpaceMap", << >>, << >>, st, 84))
                 /\ pc' = << "Returned", 85 >>
                 /\ ReturnStatus' = st
  /\ UNCHANGED << build, MapPagesBase, MapPagesCount, SnpBootDxeTable, CcBlob, pool >>

\* the map released as soon as it is retrieved, and walked afterwards
GetMemorySpaceMapFreeingEarly ==
  /\ pc = << "GetMemorySpaceMap", 84 >>
  /\ \E st \in GetMemorySpaceMapStatuses :
       /\ Status' = st
       /\ IF ~EFI_ERROR(st)
            THEN \E m \in PlatformMaps :
                   /\ calls' = calls \o
                        << Call("GetMemorySpaceMap", << >>, << Len(m), m >>, st, 84),
                           Call("FreePool", << m >>, << >>, Void, 102) >>
                   /\ AllDescMap' = m
                   /\ NumEntries' = Len(m)
                   /\ Index' = 0
                   /\ pc' = << "Sweep", 86 >>
            ELSE /\ UNCHANGED << AllDescMap, NumEntries, Index >>
                 /\ calls' = Append(calls, Call("GetMemorySpaceMap", << >>, << >>, st, 84))
                 /\ pc' = << "MmConfig", 111 >>
  /\ UNCHANGED << build, MapPagesBase, MapPagesCount, SnpBootDxeTable, CcBlob, pool,
                  ReturnStatus >>

\* lines 84-86: Status = gDS->GetMemorySpaceMap (&NumEntries, &AllDescMap);
GetMemorySpaceMap ==
  /\ pc = << "GetMemorySpaceMap", 84 >>
  /\ \E st \in GetMemorySpaceMapStatuses :
       /\ Status' = st
       /\ IF ~EFI_ERROR(st)
            THEN \E m \in PlatformMaps :
                   /\ calls' = Append(calls, Call("GetMemorySpaceMap", << >>,
                                                  << Len(m), m >>, st, 84))
                   /\ AllDescMap' = m
                   /\ NumEntries' = Len(m)
                   /\ Index' = 0
                   /\ pc' = << "Sweep", 86 >>
            ELSE /\ UNCHANGED << AllDescMap, NumEntries, Index >>
                 /\ calls' = Append(calls, Call("GetMemorySpaceMap", << >>, << >>, st, 84))
                 /\ pc' = << "MmConfig", 111 >>
  /\ UNCHANGED << build, MapPagesBase, MapPagesCount, SnpBootDxeTable, CcBlob, pool,
                  ReturnStatus >>

\* a walk that takes Reserved space for MMIO as well
IsSweepTypeWithReserved(t) ==
  t \in { "EfiGcdMemoryTypeMemoryMappedIo", "EfiGcdMemoryTypeNonExistent",
          "EfiGcdMemoryTypeReserved" }

\* lines 90-91: the descriptor kinds the walk clears the C-bit of
IsSweepType(t) ==
  \/ t = "EfiGcdMemoryTypeMemoryMappedIo"
  \/ t = "EfiGcdMemoryTypeNonExistent"

\* line 89: Desc = &AllDescMap[Index];
Desc == AllDescMap[Index + 1]

\* the walk leaving the loop, and the FreePool after it, at the first failed clear
SweepClearBailOut ==
  /\ pc = << "Sweep", 86 >>
  /\ Index < NumEntries
  /\ IsSweepType(Desc.GcdMemoryType)
  /\ \E st \in ClearEncMaskStatuses :
       /\ calls' = Append(calls, Call("MemEncryptSevClearMmioPageEncMask",
                                      << 0, Desc.BaseAddress, EFI_SIZE_TO_PAGES(Desc.Length) >>,
                                      << >>, st, 93))
       /\ Status' = st
       /\ pc' = IF EFI_ERROR(st)
                  THEN AfterAssert(TRUE, 98, << "MmConfig", 111 >>)
                  ELSE << "Sweep", 86 >>
       /\ Index' = IF EFI_ERROR(st) /\ AssertEnabled THEN Index ELSE Index + 1
  /\ UNCHANGED << build, AllDescMap, NumEntries, MapPagesBase, MapPagesCount,
                  SnpBootDxeTable, CcBlob, pool, ReturnStatus >>

\* lines 86-99, a descriptor of MMIO or NonExistent space:
\* Status = MemEncryptSevClearMmioPageEncMask (0, Desc->BaseAddress,
\*            EFI_SIZE_TO_PAGES (Desc->Length)); ASSERT_EFI_ERROR (Status);
SweepClear ==
  /\ pc = << "Sweep", 86 >>
  /\ Index < NumEntries
  /\ IsSweepType(Desc.GcdMemoryType)
  /\ \E st \in ClearEncMaskStatuses :
       /\ calls' = Append(calls, Call("MemEncryptSevClearMmioPageEncMask",
                                      << 0, Desc.BaseAddress, EFI_SIZE_TO_PAGES(Desc.Length) >>,
                                      << >>, st, 93))
       /\ Status' = st
       /\ pc' = AfterAssert(EFI_ERROR(st), 98, << "Sweep", 86 >>)
       /\ Index' = IF EFI_ERROR(st) /\ AssertEnabled THEN Index ELSE Index + 1
  /\ UNCHANGED << build, AllDescMap, NumEntries, MapPagesBase, MapPagesCount,
                  SnpBootDxeTable, CcBlob, pool, ReturnStatus >>

\* a walk that starts over at a descriptor it has nothing to do for
SweepSkipStartingOver ==
  /\ pc = << "Sweep", 86 >>
  /\ Index < NumEntries
  /\ ~IsSweepType(Desc.GcdMemoryType)
  /\ Index' = 0
  /\ UNCHANGED << build, pc, Status, AllDescMap, NumEntries, MapPagesBase, MapPagesCount,
                  SnpBootDxeTable, CcBlob, pool, calls, ReturnStatus >>

\* lines 86-100, a descriptor of any other kind: nothing but Index++
SweepSkip ==
  /\ pc = << "Sweep", 86 >>
  /\ Index < NumEntries
  /\ ~IsSweepType(Desc.GcdMemoryType)
  /\ Index' = Index + 1
  /\ UNCHANGED << build, pc, Status, AllDescMap, NumEntries, MapPagesBase, MapPagesCount,
                  SnpBootDxeTable, CcBlob, pool, calls, ReturnStatus >>

\* the release of the map moved below the MMCONFIG clear
FreeMapAfterMmConfigClear ==
  /\ pc = << "Sweep", 86 >>
  /\ ~(Index < NumEntries)
  /\ IF PcdOvmfHostBridgePciDevId = INTEL_Q35_MCH_DEVICE_ID
       THEN \E st \in ClearEncMaskStatuses :
              /\ calls' = calls \o
                   << Call("MemEncryptSevClearMmioPageEncMask",
                           << 0, PcdPciExpressBaseAddress, EFI_SIZE_TO_PAGES(SIZE_256MB) >>,
                           << >>, st, 112),
                      Call("FreePool", << AllDescMap >>, << >>, Void, 102) >>
              /\ Status' = st
              /\ pc' = AfterAssert(EFI_ERROR(st), 118,
                                   IF PcdSmmSmramRequire
                                     THEN << "LocateSaveState", 144 >>
                                     ELSE << "AllocatePool", 174 >>)
       ELSE /\ calls' = Append(calls, Call("FreePool", << AllDescMap >>, << >>, Void, 102))
            /\ pc' = << "MmConfig", 111 >>
            /\ UNCHANGED Status
  /\ UNCHANGED << build, AllDescMap, NumEntries, Index, MapPagesBase,
                  MapPagesCount, SnpBootDxeTable, CcBlob, pool, ReturnStatus >>

\* lines 86, 102: the loop is over; FreePool (AllDescMap);
FreeMap ==
  /\ pc = << "Sweep", 86 >>
  /\ ~(Index < NumEntries)
  /\ calls' = Append(calls, Call("FreePool", << AllDescMap >>, << >>, Void, 102))
  /\ pc' = << "MmConfig", 111 >>
  /\ UNCHANGED << build, Status, AllDescMap, NumEntries, Index, MapPagesBase,
                  MapPagesCount, SnpBootDxeTable, CcBlob, pool, ReturnStatus >>

\* the SMM scrub entered whatever the feature flag says
AfterMmConfigIgnoringFlag == << "LocateSaveState", 144 >>

\* line 140: if (FeaturePcdGet (PcdSmmSmramRequire))
AfterMmConfig ==
  IF PcdSmmSmramRequire THEN << "LocateSaveState", 144 >> ELSE << "AllocatePool", 174 >>

\* the host bridge test with the comparison negated
IsQ35Negated == PcdOvmfHostBridgePciDevId # INTEL_Q35_MCH_DEVICE_ID

\* line 111: PcdGet16 (PcdOvmfHostBridgePciDevId) == INTEL_Q35_MCH_DEVICE_ID
IsQ35 == PcdOvmfHostBridgePciDevId = INTEL_Q35_MCH_DEVICE_ID

\* lines 111-119, 140, the host bridge is the Q35 MCH:
\* Status = MemEncryptSevClearMmioPageEncMask (0, PcdPciExpressBaseAddress,
\*            EFI_SIZE_TO_PAGES (SIZE_256MB)); ASSERT_EFI_ERROR (Status);
MmConfigClear ==
  /\ pc = << "MmConfig", 111 >>
  /\ IsQ35
  /\ \E st \in ClearEncMaskStatuses :
       /\ calls' = Append(calls, Call("MemEncryptSevClearMmioPageEncMask",
                                      << 0, PcdPciExpressBaseAddress,
                                         EFI_SIZE_TO_PAGES(SIZE_256MB) >>,
                                      << >>, st, 112))
       /\ Status' = st
       /\ pc' = AfterAssert(EFI_ERROR(st), 118, AfterMmConfig)
  /\ UNCHANGED << build, AllDescMap, NumEntries, Index, MapPagesBase, MapPagesCount,
                  SnpBootDxeTable, CcBlob, pool, ReturnStatus >>

\* lines 111, 140, any other host bridge: no call
MmConfigSkip ==
  /\ pc = << "MmConfig", 111 >>
  /\ ~IsQ35
  /\ pc' = AfterMmConfig
  /\ UNCHANGED << build, Status, AllDescMap, NumEntries, Index, MapPagesBase,
                  MapPagesCount, SnpBootDxeTable, CcBlob, pool, calls, ReturnStatus >>

\* lines 144-148: Status = MemEncryptSevLocateInitialSmramSaveStateMapPages (
\*   &MapPagesBase, &MapPagesCount); ASSERT_EFI_ERROR (Status);
\* When the call fails the two locals keep whatever the stack held.
LocateSaveState ==
  /\ pc = << "LocateSaveState", 144 >>
  /\ \E st \in LocateStatuses :
       /\ Status' = st
       /\ IF ~EFI_ERROR(st)
            THEN \E r \in SaveStateMapPages :
                   /\ calls' = Append(calls,
                        Call("MemEncryptSevLocateInitialSmramSaveStateMapPages",
                             << >>, r, st, 144))
                   /\ MapPagesBase' = r[1]
                   /\ MapPagesCount' = r[2]
            ELSE \E b \in IndeterminateUINTN, n \in IndeterminateUINTN :
                   /\ calls' = Append(calls,
                        Call("MemEncryptSevLocateInitialSmramSaveStateMapPages",
                             << >>, << >>, st, 144))
                   /\ MapPagesBase' = b
                   /\ MapPagesCount' = n
       /\ pc' = AfterAssert(EFI_ERROR(st), 148, << "ZeroMem", 155 >>)
  /\ UNCHANGED << build, AllDescMap, NumEntries, Index, SnpBootDxeTable, CcBlob, pool,
                  ReturnStatus >>

\* a ZeroMem of the first page only
ZeroSaveStateFirstPage ==
  /\ pc = << "ZeroMem", 155 >>
  /\ calls' = Append(calls, Call("ZeroMem", << MapPagesBase, EFI_PAGE_SIZE >>,
                                 << >>, Void, 155))
  /\ pc' = << "ClearPageEncMask", 157 >>
  /\ UNCHANGED << build, Status, AllDescMap, NumEntries, Index, MapPagesBase,
                  MapPagesCount, SnpBootDxeTable, CcBlob, pool, ReturnStatus >>

\* line 155: ZeroMem ((VOID *)MapPagesBase, EFI_PAGES_TO_SIZE (MapPagesCount));
ZeroSaveState ==
  /\ pc = << "ZeroMem", 155 >>
  /\ calls' = Append(calls, Call("ZeroMem",
                                 << MapPagesBase, EFI_PAGES_TO_SIZE(MapPagesCount) >>,
                                 << >>, Void, 155))
  /\ pc' = << "ClearPageEncMask", 157 >>
  /\ UNCHANGED << build, Status, AllDescMap, NumEntries, Index, MapPagesBase,
                  MapPagesCount, SnpBootDxeTable, CcBlob, pool, ReturnStatus >>

\* the clear whose failure is logged and asserted on, without CpuDeadLoop ()
ClearSaveStateEncMaskGoingOn ==
  /\ pc = << "ClearPageEncMask", 157 >>
  /\ \E st \in ClearEncMaskStatuses :
       /\ calls' = Append(calls, Call("MemEncryptSevClearPageEncMask",
                                      << 0, MapPagesBase, MapPagesCount >>,
                                      << >>, st, 157))
       /\ Status' = st
       /\ pc' = AfterAssert(EFI_ERROR(st), 169, << "AllocatePool", 174 >>)
  /\ UNCHANGED << build, AllDescMap, NumEntries, Index, MapPagesBase, MapPagesCount,
                  SnpBootDxeTable, CcBlob, pool, ReturnStatus >>

\* lines 157-172: Status = MemEncryptSevClearPageEncMask (0, MapPagesBase,
\*   MapPagesCount); if (EFI_ERROR (Status)) { DEBUG; ASSERT (FALSE); CpuDeadLoop (); }
ClearSaveStateEncMask ==
  /\ pc = << "ClearPageEncMask", 157 >>
  /\ \E st \in ClearEncMaskStatuses :
       /\ calls' = Append(calls, Call("MemEncryptSevClearPageEncMask",
                                      << 0, MapPagesBase, MapPagesCount >>,
                                      << >>, st, 157))
       /\ Status' = st
       /\ pc' = IF EFI_ERROR(st)
                  THEN AfterAssert(TRUE, 169, << "CpuDeadLoop", 170 >>)
                  ELSE << "AllocatePool", 174 >>
  /\ UNCHANGED << build, AllDescMap, NumEntries, Index, MapPagesBase, MapPagesCount,
                  SnpBootDxeTable, CcBlob, pool, ReturnStatus >>

\* the content of a fresh allocation: nothing has been written to it
FreshBlob(g) ==
  [ Header |-> g, Version |-> g, Reserved |-> g, SecretsPhysicalAddress |-> g,
    SecretsSize |-> g, Reserved1 |-> g, CpuidPhysicalAddress |-> g,
    CpuidLSize |-> g, Reserved2 |-> g ]

\* the allocation whose failure is logged but not halted on
AllocatePoolGoingOn ==
  /\ pc = << "AllocatePool", 174 >>
  /\ \E st \in AllocatePoolStatuses :
       /\ Status' = st
       /\ IF ~EFI_ERROR(st)
            THEN \E a \in PoolAddresses \ DOMAIN pool, g \in PoolGarbage :
                   /\ calls' = Append(calls, Call("AllocatePool",
                                                  << "EfiACPIReclaimMemory", CcBlobSize >>,
                                                  << a >>, st, 33))
                   /\ CcBlob' = a
                   /\ pool' = pool @@ (a :> FreshBlob(g))
                   /\ pc' = << "PopulateBlob", 42 >>
            ELSE /\ UNCHANGED << CcBlob, pool >>
                 /\ calls' = Append(calls, Call("AllocatePool",
                                                << "EfiACPIReclaimMemory", CcBlobSize >>,
                                                << >>, st, 33))
                 /\ pc' = AfterAssert(TRUE, 182, << "SnpCheck", 190 >>)
  /\ UNCHANGED << build, AllDescMap, NumEntries, Index, MapPagesBase, MapPagesCount,
                  SnpBootDxeTable, ReturnStatus >>

\* lines 174, 33-40, 175-184: Status = gBS->AllocatePool (EfiACPIReclaimMemory,
\*   sizeof (CONFIDENTIAL_COMPUTING_SNP_BLOB_LOCATION), (VOID **)&CcBlob);
\* on an error AllocateConfidentialComputingBlob returns it, and the entry
\* point does DEBUG; ASSERT (FALSE); CpuDeadLoop ();
AllocatePool ==
  /\ pc = << "AllocatePool", 174 >>
  /\ \E st \in AllocatePoolStatuses :
       /\ Status' = st
       /\ IF ~EFI_ERROR(st)
            THEN \E a \in PoolAddresses \ DOMAIN pool, g \in PoolGarbage :
                   /\ calls' = Append(calls, Call("AllocatePool",
                                                  << "EfiACPIReclaimMemory", CcBlobSize >>,
                                                  << a >>, st, 33))
                   /\ CcBlob' = a
                   /\ pool' = pool @@ (a :> FreshBlob(g))
                   /\ pc' = << "PopulateBlob", 42 >>
            ELSE /\ UNCHANGED << CcBlob, pool >>
                 /\ calls' = Append(calls, Call("AllocatePool",
                                                << "EfiACPIReclaimMemory", CcBlobSize >>,
                                                << >>, st, 33))
                 /\ pc' = AfterAssert(TRUE, 182, << "CpuDeadLoop", 183 >>)
  /\ UNCHANGED << build, AllDescMap, NumEntries, Index, MapPagesBase, MapPagesCount,
                  SnpBootDxeTable, ReturnStatus >>

\* the blob filled without its three reserved fields
PopulateBlobSkippingReserved ==
  /\ pc = << "PopulateBlob", 42 >>
  /\ pool' = [pool EXCEPT ![CcBlob] =
       [ pool[CcBlob] EXCEPT
           !.Header                 = SIGNATURE_32(65, 77, 68, 69),
           !.Version                = 1,
           !.SecretsPhysicalAddress = PcdOvmfSnpSecretsBase,
           !.SecretsSize            = PcdOvmfSnpSecretsSize,
           !.CpuidPhysicalAddress   = PcdOvmfCpuidBase,
           !.CpuidLSize             = PcdOvmfCpuidSize ]]
  /\ SnpBootDxeTable' = CcBlob
  /\ Status' = "EFI_SUCCESS"
  /\ pc' = << "SnpCheck", 190 >>
  /\ UNCHANGED << build, AllDescMap, NumEntries, Index, MapPagesBase, MapPagesCount,
                  CcBlob, calls, ReturnStatus >>

\* lines 42-54, 174: the nine assignments to *CcBlob; *CcBlobPtr = CcBlob;
\* return EFI_SUCCESS;
PopulateBlob ==
  /\ pc = << "PopulateBlob", 42 >>
  /\ pool' = [pool EXCEPT ![CcBlob] =
       [ Header                 |-> SIGNATURE_32(65, 77, 68, 69),
         Version                |-> 1,
         Reserved               |-> 0,
         SecretsPhysicalAddress |-> PcdOvmfSnpSecretsBase,
         SecretsSize            |-> PcdOvmfSnpSecretsSize,
         Reserved1              |-> 0,
         CpuidPhysicalAddress   |-> PcdOvmfCpuidBase,
         CpuidLSize             |-> PcdOvmfCpuidSize,
         Reserved2              |-> 0 ]]
  /\ SnpBootDxeTable' = CcBlob
  /\ Status' = "EFI_SUCCESS"
  /\ pc' = << "SnpCheck", 190 >>
  /\ UNCHANGED << build, AllDescMap, NumEntries, Index, MapPagesBase, MapPagesCount,
                  CcBlob, calls, ReturnStatus >>

\* the SNP test with the install on the wrong branch
SnpCheckInverted ==
  /\ pc = << "SnpCheck", 190 >>
  /\ \E enabled \in BOOLEAN :
       /\ calls' = Append(calls, Call("MemEncryptSevSnpIsEnabled", << >>, << >>, enabled, 190))
       /\ IF ~enabled
            THEN /\ pc' = << "InstallConfigurationTable", 191 >>
                 /\ UNCHANGED ReturnStatus
            ELSE /\ pc' = << "Returned", 197 >>
                 /\ ReturnStatus' = "EFI_SUCCESS"
  /\ UNCHANGED << build, Status, AllDescMap, NumEntries, Index, MapPagesBase,
                  MapPagesCount, SnpBootDxeTable, CcBlob, pool >>

\* lines 190, 197: if (MemEncryptSevSnpIsEnabled ()) ...; return EFI_SUCCESS;
SnpCheck ==
  /\ pc = << "SnpCheck", 190 >>
  /\ \E enabled \in BOOLEAN :
       /\ calls' = Append(calls, Call("MemEncryptSevSnpIsEnabled", << >>, << >>, enabled, 190))
       /\ IF enabled
            THEN /\ pc' = << "InstallConfigurationTable", 191 >>
                 /\ UNCHANGED ReturnStatus
            ELSE /\ pc' = << "Returned", 197 >>
                 /\ ReturnStatus' = "EFI_SUCCESS"
  /\ UNCHANGED << build, Status, AllDescMap, NumEntries, Index, MapPagesBase,
                  MapPagesCount, SnpBootDxeTable, CcBlob, pool >>

\* the install whose status is dropped: the routine returns EFI_SUCCESS
InstallDroppingStatus ==
  /\ pc = << "InstallConfigurationTable", 191 >>
  /\ \E st \in InstallConfigurationTableStatuses :
       /\ calls' = Append(calls, Call("InstallConfigurationTable",
                                      << "gConfidentialComputingSevSnpBlobGuid",
                                         SnpBootDxeTable >>,
                                      << >>, st, 191))
       /\ ReturnStatus' = "EFI_SUCCESS"
  /\ pc' = << "Returned", 191 >>
  /\ UNCHANGED << build, Status, AllDescMap, NumEntries, Index, MapPagesBase,
                  MapPagesCount, SnpBootDxeTable, CcBlob, pool >>

\* lines 191-194: return gBS->InstallConfigurationTable (
\*   &gConfidentialComputingSevSnpBlobGuid, SnpBootDxeTable);
InstallConfigurationTable ==
  /\ pc = << "InstallConfigurationTable", 191 >>
  /\ \E st \in InstallConfigurationTableStatuses :
       /\ calls' = Append(calls, Call("InstallConfigurationTable",
                                      << "gConfidentialComputingSevSnpBlobGuid",
                                         SnpBootDxeTable >>,
                                      << >>, st, 191))
       /\ ReturnStatus' = st
  /\ pc' = << "Returned", 191 >>
  /\ UNCHANGED << build, Status, AllDescMap, NumEntries, Index, MapPagesBase,
                  MapPagesCount, SnpBootDxeTable, CcBlob, pool >>

Next ==
  \/ Gate
  \/ GetMemorySpaceMap
  \/ SweepClear
  \/ SweepSkip
  \/ FreeMap
  \/ MmConfigClear
  \/ MmConfigSkip
  \/ LocateSaveState
  \/ ZeroSaveState
  \/ ClearSaveStateEncMask
  \/ AllocatePool
  \/ PopulateBlob
  \/ SnpCheck
  \/ InstallConfigurationTable

Spec == Init /\ [][Next]_vars

-----------------------------------------------------------------------------
(* Reading the record of calls *)

CallsOf(op) == { i \in 1..Len(calls) : calls[i].op = op }

Called(op) == CallsOf(op) # { }

\* MemEncryptSevIsEnabled () has answered b
SevAnswered(b) ==
  \E i \in CallsOf("MemEncryptSevIsEnabled") : calls[i].ret = b

\* MemEncryptSevSnpIsEnabled () has answered b
SnpAnswered(b) ==
  \E i \in CallsOf("MemEncryptSevSnpIsEnabled") : calls[i].ret = b

\* the calls of op that returned an error / returned EFI_SUCCESS
Failed(op) == { i \in CallsOf(op) : calls[i].ret # "EFI_SUCCESS" }
Succeeded(op) == { i \in CallsOf(op) : calls[i].ret = "EFI_SUCCESS" }

\* the routine is stopped for good: DebugAssert's dead loop or CpuDeadLoop ()
Halted == pc[1] \in { "Assert", "CpuDeadLoop" }

Returned == pc[1] = "Returned"

\* the kinds of claim C2, written out
MmioOrNonExistent(d) ==
  d.GcdMemoryType \in { "EfiGcdMemoryTypeMemoryMappedIo", "EfiGcdMemoryTypeNonExistent" }

\* ceil (n / 4096)
CeilPages(n) == (n + 4095) \div 4096

\* the clear_mmio_c_bit call a descriptor's range stands for
RangeArgs(d) == << 0, d.BaseAddress, CeilPages(d.Length) >>

\* the clear_mmio_c_bit calls with the arguments a, among the calls at the places I
ClearMmioWith(a, I) ==
  { i \in CallsOf("MemEncryptSevClearMmioPageEncMask") \cap I : calls[i].args = a }

-----------------------------------------------------------------------------
(* C1 *)

\* C1: when MemEncryptSevIsEnabled returns false the routine has returned
\* EFI_UNSUPPORTED and the call of MemEncryptSevIsEnabled is the only call made.
C1_NonSevReturnsUnsupported ==
  SevAnswered(FALSE) =>
    /\ Returned
    /\ ReturnStatus = "EFI_UNSUPPORTED"
    /\ Len(calls) = 1

C1_Witness ==
  /\ SevAnswered(FALSE)
  /\ Returned

-----------------------------------------------------------------------------
(* C2 *)

\* C2: once the walk of a map that GetMemorySpaceMap returned is over (the map
\* is released), every descriptor of MMIO or NonExistent space in the returned
\* map has had exactly one MemEncryptSevClearMmioPageEncMask call before the
\* release, with the arguments (0, base, ceil (length / 4096)); at no time
\* has such a descriptor had more than one.
C2_EverySweepRangeClearedOnce ==
  \A g \in Succeeded("GetMemorySpaceMap") :
    LET m == calls[g].out[2] IN
      \A k \in 1..Len(m) :
        MmioOrNonExistent(m[k]) =>
          /\ Cardinality(ClearMmioWith(RangeArgs(m[k]),
                                       { i \in 1..Len(calls) : calls[i].line = 93 })) <= 1
          /\ \A f \in CallsOf("FreePool") :
               Cardinality(ClearMmioWith(RangeArgs(m[k]), g + 1 .. f - 1)) = 1

\* a map of an MMIO and a NonExistent descriptor, one of them ending inside a
\* page, has been walked and released
C2_Witness ==
  \E g \in Succeeded("GetMemorySpaceMap") :
    LET m == calls[g].out[2] IN
      /\ Called("FreePool")
      /\ Len(m) = 2
      /\ m[1].GcdMemoryType = "EfiGcdMemoryTypeNonExistent"
      /\ m[2].GcdMemoryType = "EfiGcdMemoryTypeMemoryMappedIo"
      /\ m[2].Length % 4096 # 0
      /\ Cardinality(CallsOf("MemEncryptSevClearMmioPageEncMask")) = 2

-----------------------------------------------------------------------------
(* C3 *)

\* C3 as stated: no MemEncryptSevClearMmioPageEncMask call of the run carries
\* the base and page count of a descriptor of any other kind.
C3_OtherKindsNeverCleared ==
  \A g \in Succeeded("GetMemorySpaceMap") :
    LET m == calls[g].out[2] IN
      \A k \in 1..Len(m) :
        ~MmioOrNonExistent(m[k]) =>
          ClearMmioWith(RangeArgs(m[k]), 1..Len(calls)) = { }

\* C3 amended: the walk makes no MemEncryptSevClearMmioPageEncMask call with
\* the range of a descriptor of any other kind; the one call that can carry
\* such a range is the MMCONFIG call after the walk, on a Q35 host bridge,
\* and the descriptor is then one that starts at PcdPciExpressBaseAddress and
\* spans 65536 pages.
C3_OtherKindsNotClearedByWalk ==
  \A g \in Succeeded("GetMemorySpaceMap") :
    LET m == calls[g].out[2] IN
      \A k \in 1..Len(m) :
        ~MmioOrNonExistent(m[k]) =>
          \A i \in ClearMmioWith(RangeArgs(m[k]), 1..Len(calls)) :
            /\ calls[i].line = 112
            /\ \E f \in CallsOf("FreePool") : f < i
            /\ PcdOvmfHostBridgePciDevId = 10688
            /\ m[k].BaseAddress = PcdPciExpressBaseAddress
            /\ CeilPages(m[k].Length) = 65536

\* Q35, the map holds the Reserved MMCONFIG window next to an MMIO descriptor:
\* the walk has cleared the MMIO one only, the MMCONFIG call has been made
C3_Witness ==
  \E g \in Succeeded("GetMemorySpaceMap") :
    LET m == calls[g].out[2] IN
      /\ Len(m) = 2
      /\ m[1].GcdMemoryType = "EfiGcdMemoryTypeReserved"
      /\ m[1].BaseAddress = PcdPciExpressBaseAddress
      /\ m[2].GcdMemoryType = "EfiGcdMemoryTypeMemoryMappedIo"
      /\ \E i \in CallsOf("MemEncryptSevClearMmioPageEncMask") : calls[i].line = 112
      /\ Cardinality(CallsOf("MemEncryptSevClearMmioPageEncMask")) = 2

-----------------------------------------------------------------------------
(* C4 *)

\* C4: every MemEncryptSevClearPageEncMask call has the arguments
\* (0, base, page count), comes right after a ZeroMem of the page count * 4096
\* bytes at that base, and carries the base and page count that
\* MemEncryptSevLocateInitialSmramSaveStateMapPages returned; it is made only
\* with PcdSmmSmramRequire set, and with the flag set no pool is allocated
\* before it.
C4_SaveStateZeroedBeforeClear ==
  /\ \A i \in CallsOf("MemEncryptSevClearPageEncMask") :
       /\ PcdSmmSmramRequire
       /\ Len(calls[i].args) = 3
       /\ calls[i].args[1] = 0
       /\ i > 1
       /\ calls[i - 1].op = "ZeroMem"
       /\ calls[i - 1].args = << calls[i].args[2], calls[i].args[3] * 4096 >>
       /\ \A l \in Succeeded("MemEncryptSevLocateInitialSmramSaveStateMapPages") :
            /\ l < i - 1
            /\ calls[i].args = << 0, calls[l].out[1], calls[l].out[2] >>
  /\ (PcdSmmSmramRequire /\ Called("AllocatePool")) =>
       \E i \in CallsOf("MemEncryptSevClearPageEncMask") :
         \A a \in CallsOf("AllocatePool") : i < a

\* a located region of two pages has been zeroed and its C-bit cleared
C4_Witness ==
  \E l \in Succeeded("MemEncryptSevLocateInitialSmramSaveStateMapPages") :
    /\ calls[l].out[2] = 2
    /\ \E i \in Succeeded("MemEncryptSevClearPageEncMask") : i = l + 2

-----------------------------------------------------------------------------
(* C5 *)

\* C5: after MemEncryptSevLocateInitialSmramSaveStateMapPages returned an
\* error the routine is halted, and there is no ZeroMem, no
\* MemEncryptSevClearPageEncMask, no AllocatePool and no
\* InstallConfigurationTable call.
C5_LocateFailureHalts ==
  Failed("MemEncryptSevLocateInitialSmramSaveStateMapPages") # { } =>
    /\ Halted
    /\ ~Called("ZeroMem")
    /\ ~Called("MemEncryptSevClearPageEncMask")
    /\ ~Called("AllocatePool")
    /\ ~Called("InstallConfigurationTable")

-----------------------------------------------------------------------------
(* C6 *)

\* C6: after AllocatePool returned an error the routine is halted; there is no
\* MemEncryptSevSnpIsEnabled and no InstallConfigurationTable call, the pool
\* holds no blob and SnpBootDxeTable was never assigned.
C6_AllocationFailureHalts ==
  Failed("AllocatePool") # { } =>
    /\ Halted
    /\ ~Called("MemEncryptSevSnpIsEnabled")
    /\ ~Called("InstallConfigurationTable")
    /\ DOMAIN pool = { }
    /\ SnpBootDxeTable = Indeterminate

C6_Witness ==
  /\ Failed("AllocatePool") # { }
  /\ SevAnswered(TRUE)
  /\ Halted

-----------------------------------------------------------------------------
(* C7 *)

\* C7: InstallConfigurationTable is called at most once; a call of it comes
\* right after MemEncryptSevSnpIsEnabled answered true and has the arguments
\* (gConfidentialComputingSevSnpBlobGuid, the address AllocatePool returned in
\* this run); a run that has asked MemEncryptSevSnpIsEnabled and returned has
\* made the call if and only if the answer was true.
C7_InstallIffSnp ==
  /\ Cardinality(CallsOf("InstallConfigurationTable")) <= 1
  /\ \A i \in CallsOf("InstallConfigurationTable") :
       /\ i > 1
       /\ calls[i - 1].op = "MemEncryptSevSnpIsEnabled"
       /\ calls[i - 1].ret = TRUE
       /\ \E a \in Succeeded("AllocatePool") :
            /\ a < i
            /\ calls[i].args = << "gConfidentialComputingSevSnpBlobGuid", calls[a].out[1] >>
            /\ calls[a].out[1] \in DOMAIN pool
  /\ (Returned /\ Called("MemEncryptSevSnpIsEnabled")) =>
       (Called("InstallConfigurationTable") <=> SnpAnswered(TRUE))

\* both outcomes are witnessed by the SNP run: the blob was installed
C7_Witness ==
  /\ Returned
  /\ SnpAnswered(TRUE)
  /\ Cardinality(CallsOf("InstallConfigurationTable")) = 1

-----------------------------------------------------------------------------
(* C8 *)

\* C8: a run that has returned has returned EFI_UNSUPPORTED exactly when
\* MemEncryptSevIsEnabled answered false; with SEV and SNP active it has
\* returned what InstallConfigurationTable returned; with SEV active and SNP
\* not, EFI_SUCCESS, whatever GetMemorySpaceMap and the
\* MemEncryptSevClearMmioPageEncMask calls returned.
C8_ReturnStatus ==
  Returned =>
    /\ (ReturnStatus = "EFI_UNSUPPORTED") <=> SevAnswered(FALSE)
    /\ (SevAnswered(TRUE) /\ SnpAnswered(TRUE)) =>
         \E i \in CallsOf("InstallConfigurationTable") : ReturnStatus = calls[i].ret
    /\ (SevAnswered(TRUE) /\ SnpAnswered(FALSE)) => ReturnStatus = "EFI_SUCCESS"

\* the install failed and its error is what the routine returned, after
\* GetMemorySpaceMap had failed with another error
C8_Witness ==
  /\ Returned
  /\ Failed("GetMemorySpaceMap") # { }
  /\ \E i \in Failed("InstallConfigurationTable") :
       /\ ReturnStatus = calls[i].ret
       /\ \A g \in Failed("GetMemorySpaceMap") : calls[g].ret # calls[i].ret

-----------------------------------------------------------------------------
(* C9 *)

\* the descriptors of MMIO or NonExistent space that the returned map holds
\* with exactly the MMCONFIG window as their range
SweptMmConfigRanges ==
  UNION { { << g, k >> : k \in { j \in 1..Len(calls[g].out[2]) :
                          /\ MmioOrNonExistent(calls[g].out[2][j])
                          /\ RangeArgs(calls[g].out[2][j])
                               = << 0, PcdPciExpressBaseAddress, 65536 >> } } :
          g \in Succeeded("GetMemorySpaceMap") }

\* C9: the call after the walk (line 112) is made at most once, only on the
\* Q35 host bridge (device ID 0x29C0), with the arguments
\* (0, PcdPciExpressBaseAddress, 65536); and once the routine is past the
\* host bridge test, the calls with these arguments are those of the walk
\* plus one on Q35, plus none otherwise, whether or not GetMemorySpaceMap
\* succeeded.
C9_MmConfigClearedOnQ35 ==
  LET after == { i \in CallsOf("MemEncryptSevClearMmioPageEncMask") : calls[i].line = 112 }
      window == << 0, PcdPciExpressBaseAddress, 65536 >>
  IN /\ Cardinality(after) <= 1
     /\ \A i \in after : calls[i].args = window /\ PcdOvmfHostBridgePciDevId = 10688
     /\ pc[2] > 119 =>
          Cardinality(ClearMmioWith(window, 1..Len(calls)))
            = Cardinality(SweptMmConfigRanges)
              + (IF PcdOvmfHostBridgePciDevId = 10688 THEN 1 ELSE 0)

\* Q35 and GetMemorySpaceMap failed: the MMCONFIG call is the only clear
C9_Witness ==
  /\ pc[2] > 119
  /\ PcdOvmfHostBridgePciDevId = 10688
  /\ Failed("GetMemorySpaceMap") # { }
  /\ Cardinality(CallsOf("MemEncryptSevClearMmioPageEncMask")) = 1

-----------------------------------------------------------------------------
(* C10 *)

\* C10: FreePool is called at most once, and not at all when
\* GetMemorySpaceMap failed; when it succeeded and the routine has reached the
\* host bridge test, FreePool has been called once, on the returned map, with
\* every descriptor examined (Index = NumEntries), after every call of the
\* walk and before the MMCONFIG call, also when calls of the walk failed.
C10_MapReleasedOnce ==
  /\ Cardinality(CallsOf("FreePool")) <= 1
  /\ Failed("GetMemorySpaceMap") # { } => ~Called("FreePool")
  /\ \A f \in CallsOf("FreePool") :
       /\ \E g \in Succeeded("GetMemorySpaceMap") :
            /\ g < f
            /\ calls[f].args = << calls[g].out[2] >>
            /\ NumEntries = Len(calls[g].out[2])
       /\ Index = NumEntries
       /\ \A i \in CallsOf("MemEncryptSevClearMmioPageEncMask") :
            (calls[i].line = 93 => i < f) /\ (calls[i].line = 112 => f < i)
  /\ (Succeeded("GetMemorySpaceMap") # { } /\ pc[2] >= 111) =>
       Cardinality(CallsOf("FreePool")) = 1

\* a call of the walk failed, the walk went on and the map was released
C10_Witness ==
  /\ \E i \in Failed("MemEncryptSevClearMmioPageEncMask") : calls[i].line = 93
  /\ Cardinality(CallsOf("FreePool")) = 1
  /\ pc[2] >= 111

-----------------------------------------------------------------------------
(* C11 *)

\* the blob of the table in the specification, from the build's Pcd values
ExpectedBlob ==
  [ Header                 |-> 1162104129,
    Version                |-> 1,
    Reserved               |-> 0,
    SecretsPhysicalAddress |-> PcdOvmfSnpSecretsBase,
    SecretsSize            |-> PcdOvmfSnpSecretsSize,
    Reserved1              |-> 0,
    CpuidPhysicalAddress   |-> PcdOvmfCpuidBase,
    CpuidLSize             |-> PcdOvmfCpuidSize,
    Reserved2              |-> 0 ]

\* C11: the blob AllocateConfidentialComputingBlob hands on (SnpBootDxeTable,
\* once assigned) and every blob passed to InstallConfigurationTable has
\* Header = 0x45444D41, Version = 1, the four Pcd values in the address and
\* size fields and zero in Reserved, Reserved1 and Reserved2; no field holds
\* what the allocator left in it.
C11_BlobFullyWritten ==
  /\ Called("MemEncryptSevSnpIsEnabled") =>
       /\ SnpBootDxeTable \in DOMAIN pool
       /\ pool[SnpBootDxeTable] = ExpectedBlob
       /\ \A f \in DOMAIN ExpectedBlob : pool[SnpBootDxeTable][f] \notin PoolGarbage
  /\ \A i \in CallsOf("InstallConfigurationTable") :
       /\ calls[i].args[2] \in DOMAIN pool
       /\ pool[calls[i].args[2]] = ExpectedBlob

\* the allocation succeeded and the blob was passed to InstallConfigurationTable
C11_Witness ==
  /\ Succeeded("AllocatePool") # { }
  /\ \E i \in CallsOf("InstallConfigurationTable") :
       pool[calls[i].args[2]].Header = 1162104129

-----------------------------------------------------------------------------
(* C12 *)

\* the blob of this run is in the pool, filled
BlobExists ==
  /\ SnpBootDxeTable \in DOMAIN pool
  /\ pool[SnpBootDxeTable] = ExpectedBlob

\* the blob is in the configuration table under the SNP blob GUID: an
\* InstallConfigurationTable call with the GUID and the blob returned
\* EFI_SUCCESS (a call that returns an error installs nothing)
BlobRegistered ==
  \E i \in Succeeded("InstallConfigurationTable") :
    calls[i].args = << "gConfidentialComputingSevSnpBlobGuid", SnpBootDxeTable >>

\* C12 as stated: when the routine has returned on an SEV guest, either SNP
\* is active and the blob exists and is registered, or SNP is not active and
\* the blob exists and is not registered.
C12_RegisteredOnEverySnpReturn ==
  (Returned /\ SevAnswered(TRUE)) =>
    \/ SnpAnswered(TRUE) /\ BlobExists /\ BlobRegistered
    \/ SnpAnswered(FALSE) /\ BlobExists /\ ~BlobRegistered

\* C12 amended: when the routine has returned on an SEV guest the blob
\* exists; on a non-SNP guest it is not registered and no
\* InstallConfigurationTable call was made; on an SNP guest the call was made
\* once with the SNP blob GUID and the blob, and the blob is registered
\* exactly when the routine returned EFI_SUCCESS (when the call failed the
\* blob is not registered and the routine returned the call's error).
C12_RegisteredWhenInstallSucceeds ==
  (Returned /\ SevAnswered(TRUE)) =>
    /\ BlobExists
    /\ SnpAnswered(TRUE) \/ SnpAnswered(FALSE)
    /\ SnpAnswered(FALSE) =>
         ~BlobRegistered /\ ~Called("InstallConfigurationTable")
    /\ SnpAnswered(TRUE) =>
         /\ Cardinality(CallsOf("InstallConfigurationTable")) = 1
         /\ \A i \in CallsOf("InstallConfigurationTable") :
              /\ calls[i].args = << "gConfidentialComputingSevSnpBlobGuid", SnpBootDxeTable >>
              /\ ReturnStatus = calls[i].ret
         /\ BlobRegistered <=> ReturnStatus = "EFI_SUCCESS"

\* an SNP guest on which InstallConfigurationTable failed: the routine has
\* returned the error, the blob exists and is not registered
C12_Witness ==
  /\ Returned
  /\ SnpAnswered(TRUE)
  /\ BlobExists
  /\ Failed("InstallConfigurationTable") # { }
  /\ ~BlobRegistered
  /\ ReturnStatus = "EFI_OUT_OF_RESOURCES"

-----------------------------------------------------------------------------
(* C13 *)

\* C13: after MemEncryptSevClearPageEncMask returned an error the routine is
\* halted and has not returned; the failed call is the last call made (no
\* AllocatePool, no MemEncryptSevSnpIsEnabled, no InstallConfigurationTable
\* call follows it), nothing was allocated, and the halted state has no
\* successor.
C13_ClearFailureHalts ==
  \A i \in Failed("MemEncryptSevClearPageEncMask") :
    /\ Halted
    /\ pc \in { << "Assert", 169 >>, << "CpuDeadLoop", 170 >> }
    /\ i = Len(calls)
    /\ ~Called("AllocatePool")
    /\ ~Called("MemEncryptSevSnpIsEnabled")
    /\ ~Called("InstallConfigurationTable")
    /\ DOMAIN pool = { }
    /\ ReturnStatus = Indeterminate
    /\ ~ENABLED Next

\* the save state was located, zeroed, and the clear of its C-bit failed, in
\* a build without assertions: the routine sits in CpuDeadLoop ()
C13_Witness ==
  /\ Succeeded("MemEncryptSevLocateInitialSmramSaveStateMapPages") # { }
  /\ Failed("MemEncryptSevClearPageEncMask") # { }
  /\ pc = << "CpuDeadLoop", 170 >>

-----------------------------------------------------------------------------
(* C14 *)

\* C14: after GetMemorySpaceMap returned an error the walk is skipped: no
\* call of the walk, no FreePool, the locals of the walk stay unassigned and
\* the routine goes on at the host bridge test.  Past that test the MMCONFIG
\* call has been made exactly when the host bridge is Q35.  When the routine
\* has returned, the blob was allocated and filled, it was passed to
\* InstallConfigurationTable exactly when SNP is active, and, the install not
\* having failed, the routine returned EFI_SUCCESS.
C14_MapFailureSkipsWalkOnly ==
  \A g \in Failed("GetMemorySpaceMap") :
    /\ g = 2
    /\ ~Returned \/ pc[2] > 119
    /\ Len(calls) = g => pc[1] \in { "MmConfig", "LocateSaveState", "AllocatePool" }
    /\ \A i \in CallsOf("MemEncryptSevClearMmioPageEncMask") : calls[i].line = 112
    /\ ~Called("FreePool")
    /\ AllDescMap = Indeterminate /\ NumEntries = Indeterminate /\ Index = Indeterminate
    /\ pc[2] > 119 =>
         IF PcdOvmfHostBridgePciDevId = 10688
           THEN /\ Len(calls) > g
                /\ calls[g + 1].op = "MemEncryptSevClearMmioPageEncMask"
                /\ calls[g + 1].args = << 0, PcdPciExpressBaseAddress, 65536 >>
           ELSE ~Called("MemEncryptSevClearMmioPageEncMask")
    /\ Returned =>
         /\ Succeeded("AllocatePool") # { }
         /\ BlobExists
         /\ SnpAnswered(TRUE) <=> Called("InstallConfigurationTable")
         /\ SnpAnswered(TRUE) => BlobRegistered \/ Failed("InstallConfigurationTable") # { }
         /\ Failed("InstallConfigurationTable") = { } => ReturnStatus = "EFI_SUCCESS"

\* GetMemorySpaceMap failed on a Q35 SNP guest: the MMCONFIG call was made,
\* the blob installed, and the routine returned EFI_SUCCESS
C14_Witness ==
  /\ Failed("GetMemorySpaceMap") # { }
  /\ Returned
  /\ PcdOvmfHostBridgePciDevId = 10688
  /\ Cardinality(CallsOf("MemEncryptSevClearMmioPageEncMask")) = 1
  /\ BlobRegistered
  /\ ReturnStatus = "EFI_SUCCESS"

-----------------------------------------------------------------------------
(* C15 *)

\* the calls of MemEncryptSevClearMmioPageEncMask made at source line l
ClearMmioAt(l) ==
  { i \in CallsOf("MemEncryptSevClearMmioPageEncMask") : calls[i].line = l }

\* C15: in a build without assertions no state is an assertion halt, and a
\* failed MemEncryptSevClearMmioPageEncMask call leaves the routine running:
\* right after a failed call of the walk the routine is still in the walk,
\* once it is at the host bridge test every MMIO or NonExistent descriptor of
\* the map has had its call (the ones after the failed call included) and
\* the map is released; past the test on Q35 the MMCONFIG call was made; with
\* PcdSmmSmramRequire the three steps of the scrub precede AllocatePool; and
\* the state is a return, a CpuDeadLoop of a fatal path, or has a next step.
\* In a build with assertions a failed call is the last call and the routine
\* sits in the assertion after it (line 98 or 118), with no next step.
C15_ClearMmioFailureNotFatalInRelease ==
  /\ ~AssertEnabled =>
       /\ pc[1] # "Assert"
       /\ \A i \in Failed("MemEncryptSevClearMmioPageEncMask") :
            /\ (i = Len(calls) /\ calls[i].line = 93) => pc = << "Sweep", 86 >>
            /\ (i = Len(calls) /\ calls[i].line = 112) =>
                 pc[1] \in { "LocateSaveState", "AllocatePool" }
            /\ \/ Returned
               \/ pc \in { << "CpuDeadLoop", 170 >>, << "CpuDeadLoop", 183 >> }
               \/ ENABLED Next
            /\ pc[2] >= 111 =>
                 \A g \in Succeeded("GetMemorySpaceMap") :
                   /\ Cardinality(CallsOf("FreePool")) = 1
                   /\ \A k \in 1..Len(calls[g].out[2]) :
                        MmioOrNonExistent(calls[g].out[2][k]) =>
                          Cardinality(ClearMmioWith(RangeArgs(calls[g].out[2][k]),
                                                    ClearMmioAt(93))) = 1
            /\ (pc[2] > 119 /\ PcdOvmfHostBridgePciDevId = INTEL_Q35_MCH_DEVICE_ID) =>
                 Cardinality(ClearMmioAt(112)) = 1
            /\ (Called("AllocatePool") /\ PcdSmmSmramRequire) =>
                 /\ Called("MemEncryptSevLocateInitialSmramSaveStateMapPages")
                 /\ Called("ZeroMem")
                 /\ Called("MemEncryptSevClearPageEncMask")
            /\ Returned => Succeeded("AllocatePool") # { }
  /\ AssertEnabled =>
       \A i \in Failed("MemEncryptSevClearMmioPageEncMask") :
         /\ i = Len(calls)
         /\ pc = << "Assert", IF calls[i].line = 93 THEN 98 ELSE 118 >>
         /\ ~ENABLED Next

\* without assertions: the first call of the walk failed, the second
\* descriptor was cleared all the same, and the routine has returned
C15_Witness ==
  /\ ~AssertEnabled
  /\ Returned
  /\ Cardinality(ClearMmioAt(93)) = 2
  /\ \E i \in Failed("MemEncryptSevClearMmioPageEncMask") :
       /\ calls[i].line = 93
       /\ \E j \in Succeeded("MemEncryptSevClearMmioPageEncMask") : j > i /\ calls[j].line = 93
  /\ PcdSmmSmramRequire
  /\ Called("MemEncryptSevClearPageEncMask")

-----------------------------------------------------------------------------
(* C16 *)

\* the place of a call in the linear path of the routine
Stage(c) ==
  CASE c.op = "MemEncryptSevIsEnabled" -> 0
    [] c.op = "GetMemorySpaceMap" -> 1
    [] c.op = "MemEncryptSevClearMmioPageEncMask" /\ c.line = 93 -> 2
    [] c.op = "FreePool" -> 3
    [] c.op = "MemEncryptSevClearMmioPageEncMask" /\ c.line = 112 -> 4
    [] c.op \in { "MemEncryptSevLocateInitialSmramSaveStateMapPages", "ZeroMem",
                  "MemEncryptSevClearPageEncMask" } -> 5
    [] c.op = "AllocatePool" -> 6
    [] c.op = "MemEncryptSevSnpIsEnabled" -> 7
    [] c.op = "InstallConfigurationTable" -> 8

\* C16: the first call of every run is MemEncryptSevIsEnabled, and the calls
\* come in the order gate, GetMemorySpaceMap, the clears of the walk, FreePool
\* of the map, the MMCONFIG clear, the three calls of the SMM scrub,
\* AllocatePool, MemEncryptSevSnpIsEnabled, InstallConfigurationTable: a later
\* call is never of an earlier stage, only the walk and the scrub make more
\* than one call, the scrub makes each of its calls once, and the blob is
\* fully written when MemEncryptSevSnpIsEnabled is called.
C16_PhasesInOrder ==
  /\ Len(calls) > 0 => calls[1].op = "MemEncryptSevIsEnabled"
  /\ \A i \in 1..Len(calls) : \A j \in 1..Len(calls) :
       i < j =>
         /\ Stage(calls[i]) <= Stage(calls[j])
         /\ Stage(calls[i]) = Stage(calls[j]) =>
              /\ Stage(calls[i]) \in { 2, 5 }
              /\ Stage(calls[i]) = 5 => calls[i].op # calls[j].op
  /\ Called("MemEncryptSevSnpIsEnabled") =>
       /\ CcBlob \in DOMAIN pool
       /\ pool[CcBlob] = ExpectedBlob

\* every stage has made its calls: Q35, the SMM scrub, two clears in the walk,
\* and the table installed
C16_Witness ==
  /\ Returned
  /\ Called("InstallConfigurationTable")
  /\ Called("MemEncryptSevClearPageEncMask")
  /\ Cardinality(ClearMmioAt(93)) = 2
  /\ Cardinality(ClearMmioAt(112)) = 1

-----------------------------------------------------------------------------
(* C17 *)

\* the calls of the SMM scrub, lines 144-161
ScrubOps ==
  { "MemEncryptSevLocateInitialSmramSaveStateMapPages", "ZeroMem",
    "MemEncryptSevClearPageEncMask" }

\* C17: when PcdSmmSmramRequire is false no call of the SMM scrub is in the
\* record, the routine is never at a source line of the scrub (141-173), and
\* the call just before AllocatePool is the last call of the steps before the
\* scrub: the MMCONFIG clear on Q35, otherwise FreePool of the map or the
\* failed GetMemorySpaceMap.
C17_NoScrubWithoutSmmFlag ==
  ~PcdSmmSmramRequire =>
    /\ \A i \in 1..Len(calls) : calls[i].op \notin ScrubOps
    /\ pc[2] \notin 141..173
    /\ \A a \in CallsOf("AllocatePool") :
         /\ a > 1
         /\ IF PcdOvmfHostBridgePciDevId = INTEL_Q35_MCH_DEVICE_ID
              THEN a - 1 \in ClearMmioAt(112)
              ELSE a - 1 \in CallsOf("FreePool") \cup Failed("GetMemorySpaceMap")

\* the flag is false, the MMCONFIG clear was made and the blob allocated
C17_Witness ==
  /\ ~PcdSmmSmramRequire
  /\ Cardinality(ClearMmioAt(112)) = 1
  /\ Succeeded("AllocatePool") # { }
  /\ Returned

-----------------------------------------------------------------------------
(* C18 *)

\* the calls that the routine makes at most once
OnceOps ==
  { "GetMemorySpaceMap", "MemEncryptSevLocateInitialSmramSaveStateMapPages",
    "MemEncryptSevClearPageEncMask", "AllocatePool", "InstallConfigurationTable" }

\* a call that returned an error is not issued again with the same arguments,
\* and each call of OnceOps is made at most once
NoRetry ==
  /\ \A op \in OnceOps \cup { "MemEncryptSevClearMmioPageEncMask" } :
       \A i \in Failed(op) : \A j \in CallsOf(op) :
         i < j => calls[i].args # calls[j].args
  /\ \A op \in OnceOps : Cardinality(CallsOf(op)) <= 1

\* no AllocatePool call follows a failed call of the operation op
NoAllocationAfterFailed(op) ==
  \A i \in Failed(op) : \A a \in CallsOf("AllocatePool") : a <= i

\* C18: no failed call is repeated with the same arguments, GetMemorySpaceMap,
\* the locate call, MemEncryptSevClearPageEncMask, AllocatePool and
\* InstallConfigurationTable are each called at most once, and AllocatePool is
\* not called after a failure of the SMM scrub (the locate call or
\* MemEncryptSevClearPageEncMask) or after a failed AllocatePool.
C18_NoRetryNoAllocationOnErrorPath ==
  /\ NoRetry
  /\ NoAllocationAfterFailed("MemEncryptSevLocateInitialSmramSaveStateMapPages")
  /\ NoAllocationAfterFailed("MemEncryptSevClearPageEncMask")
  /\ NoAllocationAfterFailed("AllocatePool")

-----------------------------------------------------------------------------
(* C19 *)

\* C19: from the moment GetMemorySpaceMap has returned a map, AllDescMap and
\* NumEntries are what it returned, in every later state: the routine never
\* writes to the map. The map is released at most once, FreePool is handed the
\* map as it was returned, every clear of the walk is made before the
\* release, and once the map is released the routine is no longer in the
\* walk, the only place where a descriptor's GcdMemoryType, BaseAddress or
\* Length is read (lines 87-96).
C19_MapUnchangedAndNotReadAfterRelease ==
  \A g \in Succeeded("GetMemorySpaceMap") :
    /\ AllDescMap = calls[g].out[2]
    /\ NumEntries = calls[g].out[1]
    /\ pc[1] = "Sweep" => Index \in 0..NumEntries
    /\ Cardinality(CallsOf("FreePool")) <= 1
    /\ \A f \in CallsOf("FreePool") :
         /\ calls[f].args = << calls[g].out[2] >>
         /\ pc[1] # "Sweep"
         /\ Index = NumEntries
         /\ \A i \in ClearMmioAt(93) : g < i /\ i < f

\* a map of two descriptors, both cleared, has been released
C19_Witness ==
  /\ Called("FreePool")
  /\ Cardinality(ClearMmioAt(93)) = 2
  /\ \E g \in Succeeded("GetMemorySpaceMap") : Len(calls[g].out[2]) = 2

-----------------------------------------------------------------------------
(* C20 *)

\* a call of the SMM scrub that returns a status, or AllocatePool, has failed
ScrubOrAllocFailed ==
  \/ Failed("MemEncryptSevLocateInitialSmramSaveStateMapPages") # { }
  \/ Failed("MemEncryptSevClearPageEncMask") # { }
  \/ Failed("AllocatePool") # { }

\* an assertion on a MemEncryptSevClearMmioPageEncMask status has tripped
ClearMmioAssertTripped ==
  /\ AssertEnabled
  /\ Failed("MemEncryptSevClearMmioPageEncMask") # { }

\* the three outcomes: the return of line 74, the returns of lines 191-197,
\* and the halt
ReturnedUnsupported == pc = << "Returned", 74 >>
ReturnedFromSnpStep == pc \in { << "Returned", 191 >>, << "Returned", 197 >> }

\* how far the routine is: the source line of its position, the body of
\* AllocateConfidentialComputingBlob (lines 42-54) counted at its call site of
\* line 174, and a return counted as the end of the function
Place(p) ==
  CASE p[1] = "PopulateBlob" -> 175
    [] p[1] = "Returned" -> 198
    [] OTHER -> p[2]

\* a step moves the routine forward: to a later place, or, in the loop of
\* lines 86-100, to a later descriptor of the same map
Advances ==
  \/ Place(pc') > Place(pc)
  \/ /\ pc = << "Sweep", 86 >>
     /\ pc' = pc
     /\ NumEntries' = NumEntries
     /\ Index < Index'
     /\ Index' <= NumEntries

\* the facts of a run's end that C20 states and the code has: an outcome is a
\* return or a halt, it is final, a run that has not ended has a next step,
\* and the return of line 74 is the one of a guest without SEV
OutcomeIsFinal ==
  /\ (Returned \/ Halted) <=> ~ENABLED Next
  /\ Returned => /\ ReturnedUnsupported \/ ReturnedFromSnpStep
                 /\ ReturnedUnsupported <=> SevAnswered(FALSE)
                 /\ ReturnedUnsupported => ReturnStatus = "EFI_UNSUPPORTED"

\* C20 as stated: every step moves the routine forward through finitely many
\* places, a run that has not reached an outcome has a next step, so every
\* run ends, in a return or in the halt; the outcome is final; and the run
\* ends in a return unless a call of the SMM scrub or AllocatePool fails: a
\* halted run has such a failure.
C20_ReturnsUnlessScrubOrAllocationFails ==
  /\ [][Advances]_vars
  /\ []OutcomeIsFinal
  /\ [](Halted => ScrubOrAllocFailed)

\* C20, amended: every step moves the routine forward through finitely many
\* places, a run that has not reached an outcome has a next step, so every
\* run ends, in a return or in the halt; the outcome is final; and the run
\* ends in a return unless a call of the SMM scrub or AllocatePool fails or,
\* in a build with assertions, a MemEncryptSevClearMmioPageEncMask call
\* fails: a halted run has one of these, and the assertions of lines 98 and
\* 118 halt a run in which the scrub and the allocation have not failed.
C20_ReturnsUnlessFailureOrAssertion ==
  /\ [][Advances]_vars
  /\ []OutcomeIsFinal
  /\ [](Halted => ScrubOrAllocFailed \/ ClearMmioAssertTripped)
  /\ [](pc \in { << "Assert", 98 >>, << "Assert", 118 >> } =>
          ClearMmioAssertTripped /\ ~ScrubOrAllocFailed)

\* SEV active, a map of two descriptors walked, the scrub and the allocation
\* succeeded, a clear of the walk failed without assertions, and the routine
\* has returned from the SNP step
C20_Witness ==
  /\ SevAnswered(TRUE)
  /\ ReturnedFromSnpStep
  /\ ~ScrubOrAllocFailed
  /\ Called("MemEncryptSevClearPageEncMask")
  /\ \E i \in Failed("MemEncryptSevClearMmioPageEncMask") : calls[i].line = 93
  /\ \E g \in Succeeded("GetMemorySpaceMap") : Len(calls[g].out[2]) = MaxEntries
====
